---- MODULE Spec2Model ----
(***************************************************************************)
(* Model of the Flask backend in src/backend/app.py and of the Gemini      *)
(* answer composer in src/backend/gemini_service.py.                       *)
(*                                                                         *)
(* Python dicts are functions from key strings to values; a key that is    *)
(* absent from the dict is absent from the DOMAIN.  Python strings whose   *)
(* content matters (the retrieval answer, the completion text) are         *)
(* sequences of one-character strings, so that str.strip() is computed.    *)
(* Confidence values are in hundredths (0.5 is 50, 0.82 is 82).            *)
(***************************************************************************)
EXTENDS Integers, Sequences, FiniteSets, TLC

VARIABLES
    GEMINI_READY,      \* gemini_service.GEMINI_READY
    model,             \* gemini_service.model
    GEMINI_AVAILABLE,  \* app.GEMINI_AVAILABLE
    qa_system,         \* app.qa_system (global, lazily initialised)
    pc,                \* per handler thread: position in the route handler
    route,             \* per handler: the endpoint being served
    data,              \* per handler: request.get_json()
    result,            \* per handler: qa.answer_question(...)
    prompt,            \* per handler: prompt handed to model.generate_content
    enhancer,          \* per handler: state of the outbound generate_content call
    completion,        \* per handler: response.text of the call that returned
    calls,             \* per handler: external calls made for this request, in order
    enhanced_result,   \* per handler: value returned by generate_smart_response
    raised,            \* per handler: exception raised while handling the request
    response           \* per handler: (status, JSON body) returned by the route

globals == <<GEMINI_READY, model, GEMINI_AVAILABLE, qa_system>>
locals  == <<route, data, result, prompt, enhancer, completion, calls, enhanced_result,
             raised, response>>
vars    == <<GEMINI_READY, model, GEMINI_AVAILABLE, qa_system, pc, route, data,
             result, prompt, enhancer, completion, calls, enhanced_result, raised,
             response>>

---------------------------------------------------------------------------
(* Bounds of the model *)

MaxSources == 4     \* longest retrieval sources list
MaxAnswerLen == 2   \* longest retrieval answer
MaxTextLen == 3     \* longest completion text
NumThreads == 2     \* concurrent request handlers in ConcSpec

(* Program constants *)

PromptSources     == 3    \* retrieved_data['sources'][:3]
GeneralConfidence == 50   \* 0.5, confidence of a general-guidance answer
DefaultConfidence == 0    \* retrieved_data.get('confidence', 0)

---------------------------------------------------------------------------
(* Python values *)

None == [none |-> TRUE]                 \* None, where a dict is expected
EmptyDict == [k \in {} |-> TRUE]        \* {}
NoQA == None                            \* qa_system = None
NoModel == "None"                       \* model = None

IsNone(d) == "none" \in DOMAIN d
Truthy(d) == ~IsNone(d) /\ DOMAIN d # {}

\* dict.get(k, default)
Get(d, k, default) == IF k \in DOMAIN d THEN d[k] ELSE default

Chars == {" ", "a"}
Strings(n) == UNION {[1..k -> Chars] : k \in 0..n}

IsSpace(c) == c = " "

RECURSIVE LStrip(_)
LStrip(s) == IF s # <<>> /\ IsSpace(Head(s)) THEN LStrip(Tail(s)) ELSE s

RECURSIVE RStrip(_)
RStrip(s) ==
    IF s # <<>> /\ IsSpace(s[Len(s)]) THEN RStrip(SubSeq(s, 1, Len(s) - 1)) ELSE s

\* str.strip()
strip(s) == RStrip(LStrip(s))

\* seq[:n]
Prefix(s, n) == SubSeq(s, 1, IF Len(s) < n THEN Len(s) ELSE n)

---------------------------------------------------------------------------
(* Inputs: what the retriever, the enhancer and the client can produce *)

\* The i-th snippet of a retrieval result; 'details' is optional.
Snippet(i) ==
    IF i % 2 = 1
    THEN [dataset |-> "crop_production", chunk |-> i, details |-> "d", relevance |-> "high"]
    ELSE [dataset |-> "soil_health", chunk |-> i, relevance |-> "low"]

SourceLists == {[i \in 1..n |-> Snippet(i)] : n \in 0..MaxSources}

Confidences == {0, 82}

ResultCounts == {0, 10}

RetrievalResults ==
    [answer : Strings(MaxAnswerLen), confidence : Confidences,
     sources : SourceLists, search_results_count : ResultCounts]

CompletionTexts == Strings(MaxTextLen)

\* The reduced inputs used when handlers run concurrently.
SmallResults ==
    {r \in RetrievalResults :
        /\ r.answer = <<>>
        /\ r.confidence = 82
        /\ r.search_results_count = 10
        /\ Len(r.sources) = 1}

SmallTexts == {<<"a">>}

Questions == {"q1"}

\* request.get_json(): no body, a body without 'question', a body with it.
Bodies ==
    {None, EmptyDict, [use_gemini |-> TRUE]}
    \cup {[question |-> q] : q \in Questions}
    \cup {[question |-> q, use_gemini |-> u] : q \in Questions, u \in BOOLEAN}

SmallBodies == {None} \cup {[question |-> q] : q \in Questions}

Routes == {"query", "health", "stats"}

---------------------------------------------------------------------------
(* gemini_service.generate_smart_response *)

CannedApology == <<"S", "a", "a", "r", "t", "h", "i", "A", "I">>

has_data(retrieved_data) ==
    /\ Truthy(retrieved_data)
    /\ Get(retrieved_data, "sources", <<>>) # <<>>
    /\ Len(retrieved_data["sources"]) > 0

\* One rendered source block of the context.
RenderSource(i, source) ==
    [n |-> i, dataset |-> source["dataset"], information |-> source["chunk"],
     relevance |-> source["relevance"]]
    @@ (IF "details" \in DOMAIN source THEN [details |-> source["details"]] ELSE EmptyDict)

NoDataNote == <<[note |-> "No specific dataset matches found"]>>

BuildPrompt(user_question, retrieved_data) ==
    [question |-> user_question,
     context |->
        IF Get(retrieved_data, "sources", <<>>) # <<>> /\ Len(retrieved_data["sources"]) > 0
        THEN LET shown == Prefix(retrieved_data["sources"], PromptSources)
             IN  [i \in 1..Len(shown) |-> RenderSource(i, shown[i])]
        ELSE NoDataNote]

\* Variant of SuccessReturn: forwards only the sources rendered in the prompt.
SuccessReturnTruncated(retrieved_data, text) ==
    [answer |-> strip(text),
     confidence |-> IF has_data(retrieved_data)
                    THEN Get(retrieved_data, "confidence", DefaultConfidence)
                    ELSE GeneralConfidence,
     sources |-> Prefix(Get(retrieved_data, "sources", <<>>), PromptSources),
     ai_enhanced |-> TRUE,
     general_guidance |-> ~has_data(retrieved_data)]

SuccessReturn(retrieved_data, text) ==
    [answer |-> strip(text),
     confidence |-> IF has_data(retrieved_data)
                    THEN Get(retrieved_data, "confidence", DefaultConfidence)
                    ELSE GeneralConfidence,
     sources |-> Get(retrieved_data, "sources", <<>>),
     ai_enhanced |-> TRUE,
     general_guidance |-> ~has_data(retrieved_data)]

\* Variant of FallbackAnswer: tests only for the empty string.
FallbackAnswerNoStrip(retrieved_data) ==
    LET fallback_answer == Get(retrieved_data, "answer", <<>>)
    IN  IF fallback_answer = <<>> THEN CannedApology ELSE fallback_answer

FallbackAnswer(retrieved_data) ==
    LET fallback_answer == Get(retrieved_data, "answer", <<>>)
    IN  IF fallback_answer = <<>> \/ strip(fallback_answer) = <<>>
        THEN CannedApology
        ELSE fallback_answer

FallbackReturn(retrieved_data) ==
    [answer |-> FallbackAnswer(retrieved_data),
     confidence |-> Get(retrieved_data, "confidence", DefaultConfidence),
     sources |-> Get(retrieved_data, "sources", <<>>),
     ai_enhanced |-> FALSE,
     fallback |-> TRUE]

\* The guard at the top of generate_smart_response.
GeminiUnavailable == ~GEMINI_READY \/ model = NoModel

---------------------------------------------------------------------------
(* app.py: the response envelopes built by query() *)

\* Variant of UseEnhancer: ignores the caller's use_gemini.
UseEnhancerAlways(d) == GEMINI_AVAILABLE

\* use_gemini = data.get('use_gemini', True), tested with GEMINI_AVAILABLE.
UseEnhancer(d) == GEMINI_AVAILABLE /\ Get(d, "use_gemini", TRUE)

\* not data or 'question' not in data
MissingQuestion(d) == ~Truthy(d) \/ "question" \notin DOMAIN d

EnhancedEnvelope(question, res, er) ==
    [question |-> question,
     answer |-> er["answer"],
     confidence |-> er["confidence"],
     sources |-> Get(er, "sources", Get(res, "sources", <<>>)),
     num_results |-> Get(res, "search_results_count", 0),
     ai_enhanced |-> Get(er, "ai_enhanced", FALSE),
     general_guidance |-> Get(er, "general_guidance", FALSE)]

ExceptEnvelope(question, res) ==
    [question |-> question,
     answer |-> res["answer"],
     confidence |-> res["confidence"],
     sources |-> Get(res, "sources", <<>>),
     num_results |-> Get(res, "search_results_count", 0),
     ai_enhanced |-> FALSE,
     fallback |-> TRUE]

DirectEnvelope(question, res) ==
    [question |-> question,
     answer |-> res["answer"],
     confidence |-> res["confidence"],
     sources |-> Get(res, "sources", <<>>),
     num_results |-> Get(res, "search_results_count", 0),
     ai_enhanced |-> FALSE]

\* Variant of MissingQuestionResponse: the status code is left out.
MissingQuestionResponseNoStatus ==
    [status |-> 200, body |-> [error |-> "Missing question parameter"]]

MissingQuestionResponse ==
    [status |-> 400, body |-> [error |-> "Missing question parameter"]]

QueryErrorResponse(e) == [status |-> 500, body |-> [error |-> e, details |-> "traceback"]]

HealthResponse ==
    [status |-> 200,
     body |-> [status |-> "healthy", message |-> "Q&A system is running",
               gemini_available |-> GEMINI_AVAILABLE]]

HealthErrorResponse(e) == [status |-> 500, body |-> [status |-> "error", message |-> e]]

StatsResponse ==
    [status |-> 200,
     body |-> [total_chunks |-> "len(qa.chunks)", method |-> "method",
               gemini_available |-> GEMINI_AVAILABLE]]

StatsErrorResponse(e) == [status |-> 500, body |-> [error |-> e]]

\* What each route returns when init_qa_system() raises e.
InitErrorResponse(rt, e) ==
    CASE rt = "query"  -> QueryErrorResponse(e)
      [] rt = "health" -> HealthErrorResponse(e)
      [] OTHER         -> StatsErrorResponse(e)

NoResponse == [status |-> 0, body |-> None]

---------------------------------------------------------------------------
(* State after the modules are imported *)

Threads == DOMAIN pc

\* import gemini_service fails (GEMINI_AVAILABLE = False), or it succeeds with
\* Gemini initialised or not: gemini_service catches its own start-up error.
StartupOutcomes ==
    {[available |-> FALSE, ready |-> FALSE],
     [available |-> TRUE, ready |-> FALSE],
     [available |-> TRUE, ready |-> TRUE]}

InitFor(T) ==
    /\ \E s \in StartupOutcomes :
         /\ GEMINI_AVAILABLE = s.available
         /\ GEMINI_READY = s.ready
         /\ model = IF s.ready THEN "gemini-2.5-flash" ELSE NoModel
    /\ qa_system = NoQA
    /\ pc = [t \in T |-> "idle"]
    /\ route = [t \in T |-> "none"]
    /\ data = [t \in T |-> None]
    /\ result = [t \in T |-> None]
    /\ prompt = [t \in T |-> None]
    /\ enhancer = [t \in T |-> "not called"]
    /\ completion = [t \in T |-> <<>>]
    /\ calls = [t \in T |-> <<>>]
    /\ enhanced_result = [t \in T |-> None]
    /\ raised = [t \in T |-> ""]
    /\ response = [t \in T |-> NoResponse]

Init == InitFor({1})

InitConc == InitFor(1..NumThreads)

---------------------------------------------------------------------------
(* Steps of a request handler *)

Goto(t, l) == pc' = [pc EXCEPT ![t] = l]

Reply(t, resp) ==
    /\ response' = [response EXCEPT ![t] = resp]
    /\ Goto(t, "done")

\* A request arrives at a free handler thread.
Receive(t, rt, body) ==
    /\ pc[t] = "idle"
    /\ rt # "query" => body = None
    /\ route' = [route EXCEPT ![t] = rt]
    /\ data' = [data EXCEPT ![t] = body]
    /\ Goto(t, "init")
    /\ UNCHANGED <<globals, result, prompt, enhancer, completion, calls,
                   enhanced_result, raised, response>>

\* init_qa_system(): if qa_system is None
InitCheck(t) ==
    /\ pc[t] = "init"
    /\ IF qa_system = NoQA
       THEN /\ Goto(t, "construct")
            /\ calls' = [calls EXCEPT ![t] = Append(@, "IntelligentQASystem")]
       ELSE /\ Goto(t, "serve")
            /\ UNCHANGED calls
    /\ UNCHANGED <<globals, route, data, result, prompt, enhancer, completion,
                   enhanced_result,
                   raised, response>>

\* The object IntelligentQASystem() built by handler t.
NewQASystem(t) == [built_by |-> t]

\* qa_system = IntelligentQASystem() returns
ConstructOk(t) ==
    /\ pc[t] = "construct"
    /\ qa_system' = NewQASystem(t)
    /\ Goto(t, "serve")
    /\ UNCHANGED <<GEMINI_READY, model, GEMINI_AVAILABLE, locals>>

\* Variant of ConstructFail: the failure handler clears the global.
ConstructFailClears(t) ==
    /\ pc[t] = "construct"
    /\ qa_system' = NoQA
    /\ raised' = [raised EXCEPT ![t] = "init failed"]
    /\ Reply(t, InitErrorResponse(route[t], "init failed"))
    /\ UNCHANGED <<GEMINI_READY, model, GEMINI_AVAILABLE, route, data, result, prompt,
                   enhancer, completion, calls, enhanced_result>>

\* IntelligentQASystem() raises: init_qa_system re-raises, the route's
\* except clause answers 500 and qa_system stays as it is.
ConstructFail(t) ==
    /\ pc[t] = "construct"
    /\ raised' = [raised EXCEPT ![t] = "init failed"]
    /\ Reply(t, InitErrorResponse(route[t], "init failed"))
    /\ UNCHANGED <<globals, route, data, result, prompt, enhancer, completion,
                   calls, enhanced_result>>

Health(t) ==
    /\ pc[t] = "serve"
    /\ route[t] = "health"
    /\ Reply(t, HealthResponse)
    /\ UNCHANGED <<globals, route, data, result, prompt, enhancer, completion,
                   calls,
                   enhanced_result, raised>>

Stats(t) ==
    /\ pc[t] = "serve"
    /\ route[t] = "stats"
    /\ Reply(t, StatsResponse)
    /\ UNCHANGED <<globals, route, data, result, prompt, enhancer, completion,
                   calls,
                   enhanced_result, raised>>

\* query(): data = request.get_json(); the presence check on 'question'
ParseRequest(t) ==
    /\ pc[t] = "serve"
    /\ route[t] = "query"
    /\ IF MissingQuestion(data[t])
       THEN /\ Reply(t, MissingQuestionResponse)
            /\ UNCHANGED calls
       ELSE /\ Goto(t, "retrieve")
            /\ calls' = [calls EXCEPT ![t] = Append(@, "answer_question")]
            /\ UNCHANGED response
    /\ UNCHANGED <<globals, route, data, result, prompt, enhancer, completion,
                   enhanced_result, raised>>

\* result = qa.answer_question(question, top_k=top_k) returns res
AnswerQuestion(t, res) ==
    /\ pc[t] = "retrieve"
    /\ result' = [result EXCEPT ![t] = res]
    /\ Goto(t, "compose")
    /\ UNCHANGED <<globals, route, data, prompt, enhancer, completion,
                   calls, enhanced_result,
                   raised, response>>

\* qa.answer_question raises: the outer except answers 500
AnswerQuestionRaises(t) ==
    /\ pc[t] = "retrieve"
    /\ raised' = [raised EXCEPT ![t] = "retrieval failed"]
    /\ Reply(t, QueryErrorResponse("retrieval failed"))
    /\ UNCHANGED <<globals, route, data, result, prompt, enhancer, completion,
                   calls, enhanced_result>>

\* if GEMINI_AVAILABLE and use_gemini: ... else: the direct envelope
Direct(t) ==
    /\ pc[t] = "compose"
    /\ ~UseEnhancer(data[t])
    /\ Reply(t, [status |-> 200, body |-> DirectEnvelope(data[t]["question"], result[t])])
    /\ UNCHANGED <<globals, route, data, result, prompt, enhancer, completion,
                   calls,
                   enhanced_result, raised>>

\* generate_smart_response raises "Gemini not available"; query's inner
\* except clause builds its envelope.
EnhancerNotReady(t) ==
    /\ pc[t] = "compose"
    /\ UseEnhancer(data[t])
    /\ GeminiUnavailable
    /\ raised' = [raised EXCEPT ![t] = "Gemini not available"]
    /\ Reply(t, [status |-> 200, body |-> ExceptEnvelope(data[t]["question"], result[t])])
    /\ UNCHANGED <<globals, route, data, result, prompt, enhancer, completion,
                   calls, enhanced_result>>

\* generate_smart_response builds the prompt and calls model.generate_content;
\* the call may never return (h).
CallEnhancer(t, h) ==
    /\ pc[t] = "compose"
    /\ UseEnhancer(data[t])
    /\ ~GeminiUnavailable
    /\ prompt' = [prompt EXCEPT ![t] = BuildPrompt(data[t]["question"], result[t])]
    /\ enhancer' = [enhancer EXCEPT ![t] = IF h THEN "hung" ELSE "pending"]
    /\ calls' = [calls EXCEPT ![t] = Append(@, "generate_content")]
    /\ Goto(t, "calling")
    /\ UNCHANGED <<globals, route, data, result, completion, enhanced_result, raised,
                   response>>

\* model.generate_content returns and response.text is text
EnhancerReturns(t, text) ==
    /\ pc[t] = "calling"
    /\ enhancer[t] = "pending"
    /\ enhancer' = [enhancer EXCEPT ![t] = "returned"]
    /\ completion' = [completion EXCEPT ![t] = text]
    /\ LET er == SuccessReturn(result[t], text)
       IN  /\ enhanced_result' = [enhanced_result EXCEPT ![t] = er]
           /\ Reply(t, [status |-> 200,
                        body |-> EnhancedEnvelope(data[t]["question"], result[t], er)])
    /\ UNCHANGED <<globals, route, data, result, prompt, calls, raised>>

\* Variant of EnhancerRaises: no try/except in the composer, the error reaches
\* query's inner except clause.
EnhancerRaisesPropagates(t) ==
    /\ pc[t] = "calling"
    /\ enhancer[t] = "pending"
    /\ enhancer' = [enhancer EXCEPT ![t] = "raised"]
    /\ raised' = [raised EXCEPT ![t] = "api error"]
    /\ Reply(t, [status |-> 200, body |-> ExceptEnvelope(data[t]["question"], result[t])])
    /\ UNCHANGED <<globals, route, data, result, prompt, completion, calls,
                   enhanced_result>>

\* Variant of EnhancerRaises: the failed call is tried once more.
EnhancerRaisesRetries(t) ==
    /\ pc[t] = "calling"
    /\ enhancer[t] = "pending"
    /\ Len(calls[t]) < 5
    /\ calls' = [calls EXCEPT ![t] = Append(@, "generate_content")]
    /\ UNCHANGED <<globals, pc, route, data, result, prompt, enhancer, completion,
                   enhanced_result, raised, response>>

\* model.generate_content or response.text raises: the composer's except
\* clause returns its fallback dict, which query wraps as any other return.
EnhancerRaises(t) ==
    /\ pc[t] = "calling"
    /\ enhancer[t] = "pending"
    /\ enhancer' = [enhancer EXCEPT ![t] = "raised"]
    /\ LET er == FallbackReturn(result[t])
       IN  /\ enhanced_result' = [enhanced_result EXCEPT ![t] = er]
           /\ Reply(t, [status |-> 200,
                        body |-> EnhancedEnvelope(data[t]["question"], result[t], er)])
    /\ UNCHANGED <<globals, route, data, result, prompt, completion, calls, raised>>

\* The response is sent and the request-scoped values are discarded; the
\* handler thread is free again.
Send(t) ==
    /\ pc[t] = "done"
    /\ route' = [route EXCEPT ![t] = "none"]
    /\ data' = [data EXCEPT ![t] = None]
    /\ result' = [result EXCEPT ![t] = None]
    /\ prompt' = [prompt EXCEPT ![t] = None]
    /\ enhancer' = [enhancer EXCEPT ![t] = "not called"]
    /\ completion' = [completion EXCEPT ![t] = <<>>]
    /\ calls' = [calls EXCEPT ![t] = <<>>]
    /\ enhanced_result' = [enhanced_result EXCEPT ![t] = None]
    /\ raised' = [raised EXCEPT ![t] = ""]
    /\ response' = [response EXCEPT ![t] = NoResponse]
    /\ Goto(t, "idle")
    /\ UNCHANGED globals

\* Everything a handler does once it has a request.
Handle(t, Rs, Ts) ==
    \/ InitCheck(t)
    \/ ConstructOk(t)
    \/ ConstructFail(t)
    \/ Health(t)
    \/ Stats(t)
    \/ ParseRequest(t)
    \/ \E res \in Rs : AnswerQuestion(t, res)
    \/ AnswerQuestionRaises(t)
    \/ Direct(t)
    \/ EnhancerNotReady(t)
    \/ \E h \in BOOLEAN : CallEnhancer(t, h)
    \/ \E text \in Ts : EnhancerReturns(t, text)
    \/ EnhancerRaises(t)
    \/ Send(t)

Next ==
    \/ \E t \in Threads, rt \in Routes, body \in Bodies : Receive(t, rt, body)
    \/ \E t \in Threads : InitCheck(t)
    \/ \E t \in Threads : ConstructOk(t)
    \/ \E t \in Threads : ConstructFail(t)
    \/ \E t \in Threads : Health(t)
    \/ \E t \in Threads : Stats(t)
    \/ \E t \in Threads : ParseRequest(t)
    \/ \E t \in Threads, res \in RetrievalResults : AnswerQuestion(t, res)
    \/ \E t \in Threads : AnswerQuestionRaises(t)
    \/ \E t \in Threads : Direct(t)
    \/ \E t \in Threads : EnhancerNotReady(t)
    \/ \E t \in Threads, h \in BOOLEAN : CallEnhancer(t, h)
    \/ \E t \in Threads, text \in CompletionTexts : EnhancerReturns(t, text)
    \/ \E t \in Threads : EnhancerRaises(t)
    \/ \E t \in Threads : Send(t)

NextConc ==
    \/ \E t \in Threads, rt \in Routes, body \in SmallBodies : Receive(t, rt, body)
    \/ \E t \in Threads : InitCheck(t)
    \/ \E t \in Threads : ConstructOk(t)
    \/ \E t \in Threads : ConstructFail(t)
    \/ \E t \in Threads : Health(t)
    \/ \E t \in Threads : Stats(t)
    \/ \E t \in Threads : ParseRequest(t)
    \/ \E t \in Threads, res \in SmallResults : AnswerQuestion(t, res)
    \/ \E t \in Threads : AnswerQuestionRaises(t)
    \/ \E t \in Threads : Direct(t)
    \/ \E t \in Threads : EnhancerNotReady(t)
    \/ \E t \in Threads, h \in {FALSE} : CallEnhancer(t, h)
    \/ \E t \in Threads, text \in SmallTexts : EnhancerReturns(t, text)
    \/ \E t \in Threads : EnhancerRaises(t)
    \/ \E t \in Threads : Send(t)

\* One request at a time, full inputs.
Spec == Init /\ [][Next]_vars

\* Concurrent handler threads, reduced inputs.
ConcSpec == InitConc /\ [][NextConc]_vars

\* A handler thread that can take a step eventually takes one; clients need
\* not send requests.
FairSpec ==
    Init /\ [][Next]_vars
         /\ \A t \in {1} : WF_vars(Handle(t, RetrievalResults, CompletionTexts))

---------------------------------------------------------------------------
(* Properties *)

Count(seq, x) == Cardinality({i \in 1..Len(seq) : seq[i] = x})

OnlySpaces(str) == \A i \in 1..Len(str) : str[i] = " "

\* a is s without its leading and trailing spaces
IsTrimOf(a, str) ==
    /\ a = <<>> \/ (a[1] # " " /\ a[Len(a)] # " ")
    /\ \E i \in 0..Len(str) :
         /\ i + Len(a) <= Len(str)
         /\ a = SubSeq(str, i + 1, i + Len(a))
         /\ OnlySpaces(SubSeq(str, 1, i))
         /\ OnlySpaces(SubSeq(str, i + Len(a) + 1, Len(str)))

\* handler t has answered a /query request with status 200
Answered(t) == pc[t] = "done" /\ route[t] = "query" /\ response[t].status = 200

\* the request asks for the enhancer (use_gemini absent counts as true)
WantsGemini(t) == "use_gemini" \notin DOMAIN data[t] \/ data[t]["use_gemini"]

\* what the same request gets when sent with use_gemini = false
DirectPathBody(t) ==
    [question |-> data[t]["question"], answer |-> result[t]["answer"],
     confidence |-> result[t]["confidence"], sources |-> result[t]["sources"],
     num_results |-> result[t]["search_results_count"], ai_enhanced |-> FALSE]

\* C1: when the enhancer failed to initialize at startup (GEMINI_READY false),
\* every /query request whose retrieval succeeds gets the direct-path
\* response: the envelope of the same request sent with use_gemini = false,
\* with ai_enhanced = false and no 'fallback' key.
C1_InitFailureGivesDirectPath ==
    \A t \in Threads :
        (Answered(t) /\ ~GEMINI_READY) =>
            /\ response[t].body = DirectPathBody(t)
            /\ "fallback" \notin DOMAIN response[t].body

C3_FallbackOnEnhancerError ==
    \A t \in Threads :
        enhancer[t] = "raised" =>
            LET er == enhanced_result[t]
                rd == result[t]
            IN  /\ DOMAIN er = {"answer", "confidence", "sources", "ai_enhanced", "fallback"}
                /\ er["ai_enhanced"] = FALSE
                /\ er["fallback"] = TRUE
                /\ er["confidence"] = rd["confidence"]
                /\ er["sources"] = rd["sources"]
                /\ er["answer"] # <<>>
                /\ ~OnlySpaces(er["answer"])
                /\ er["answer"] = IF rd["answer"] # <<>> /\ ~OnlySpaces(rd["answer"])
                                  THEN rd["answer"]
                                  ELSE CannedApology

\* the call failed on empty sources and a whitespace-only retrieval answer
C3_Witness ==
    \E t \in Threads :
        /\ enhancer[t] = "raised"
        /\ result[t]["sources"] = <<>>
        /\ result[t]["answer"] = <<" ", " ">>
        /\ enhanced_result[t]["answer"] = CannedApology

\* C4: when the enhancer is attempted and fails at request time, the HTTP
\* response is 200 and its body carries ai_enhanced = false and
\* fallback = true; fallback and general_guidance are in the envelope exactly
\* when the composer set them.
C4_FallbackFlagReachesClient ==
    \A t \in Threads :
        (pc[t] = "done" /\ enhancer[t] = "raised") =>
            LET body == response[t].body
                er == enhanced_result[t]
            IN  /\ response[t].status = 200
                /\ body["ai_enhanced"] = FALSE
                /\ "fallback" \in DOMAIN body
                /\ body["fallback"] = TRUE
                /\ "fallback" \in DOMAIN body <=> "fallback" \in DOMAIN er
                /\ "general_guidance" \in DOMAIN body <=> "general_guidance" \in DOMAIN er

\* C5: when the enhancer call succeeds, the response has ai_enhanced = true,
\* the trimmed completion text as answer and the full retrieval sources
\* (the prompt rendered at most PromptSources of them); with sources, the
\* retrieval confidence and general_guidance = false; without sources,
\* confidence 0.5 and general_guidance = true.
C5_EnhancedResponse ==
    \A t \in Threads :
        (pc[t] = "done" /\ enhancer[t] = "returned") =>
            LET body == response[t].body
                rd == result[t]
            IN  /\ response[t].status = 200
                /\ body["ai_enhanced"] = TRUE
                /\ IsTrimOf(body["answer"], completion[t])
                /\ body["sources"] = rd["sources"]
                /\ Len(prompt[t].context) <= PromptSources
                /\ IF rd["sources"] # <<>>
                   THEN /\ body["confidence"] = rd["confidence"]
                        /\ body["general_guidance"] = FALSE
                        /\ Len(prompt[t].context) =
                              IF Len(rd["sources"]) < PromptSources
                              THEN Len(rd["sources"]) ELSE PromptSources
                   ELSE /\ body["confidence"] = GeneralConfidence
                        /\ body["general_guidance"] = TRUE
                        /\ prompt[t].context = NoDataNote

\* the call succeeded on more sources than the prompt renders, with a
\* completion text that had to be trimmed
C5_Witness ==
    \E t \in Threads :
        /\ pc[t] = "done"
        /\ enhancer[t] = "returned"
        /\ Len(result[t]["sources"]) > PromptSources
        /\ Len(prompt[t].context) = PromptSources
        /\ Len(response[t].body["sources"]) = Len(result[t]["sources"])
        /\ completion[t] = <<" ", "a", " ">>
        /\ response[t].body["answer"] = <<"a">>

\* C6: a /query request with use_gemini = false and a retrieval result with
\* sources does not call the enhancer, and its response mirrors the retrieval
\* answer, confidence and sources with ai_enhanced = false and neither a
\* fallback nor a general_guidance key.
C6_DirectPathMirrorsRetrieval ==
    \A t \in Threads :
        (/\ pc[t] = "done"
         /\ route[t] = "query"
         /\ ~IsNone(result[t])
         /\ "use_gemini" \in DOMAIN data[t]
         /\ data[t]["use_gemini"] = FALSE
         /\ result[t]["sources"] # <<>>) =>
            LET body == response[t].body
            IN  /\ Count(calls[t], "generate_content") = 0
                /\ enhancer[t] = "not called"
                /\ response[t].status = 200
                /\ body["answer"] = result[t]["answer"]
                /\ body["confidence"] = result[t]["confidence"]
                /\ body["sources"] = result[t]["sources"]
                /\ body["ai_enhanced"] = FALSE
                /\ "fallback" \notin DOMAIN body
                /\ "general_guidance" \notin DOMAIN body

\* use_gemini = false answered on the direct path although the enhancer is ready
C6_Witness ==
    \E t \in Threads :
        /\ Answered(t)
        /\ GEMINI_AVAILABLE
        /\ GEMINI_READY
        /\ data[t] = [question |-> "q1", use_gemini |-> FALSE]
        /\ Len(result[t]["sources"]) = MaxSources
        /\ response[t].body["sources"] = result[t]["sources"]

\* the JSON body is absent or has no 'question' field
LacksQuestion(d) == IsNone(d) \/ "question" \notin DOMAIN d

NoRetrievalNoEnhancer(t) ==
    /\ Count(calls[t], "answer_question") = 0
    /\ Count(calls[t], "generate_content") = 0
    /\ IsNone(result[t])
    /\ enhancer[t] = "not called"

\* C7 as stated: a /query request without 'question' is answered 400
\* 'Missing question parameter' in every state of the Q&A system, and neither
\* answer_question nor the enhancer is called for it.
C7_MissingQuestionAlways400 ==
    \A t \in Threads :
        (pc[t] = "done" /\ route[t] = "query" /\ LacksQuestion(data[t])) =>
            /\ response[t] = [status |-> 400, body |-> [error |-> "Missing question parameter"]]
            /\ NoRetrievalNoEnhancer(t)

\* C7 amended: a /query request without 'question' is answered 400 'Missing
\* question parameter' when the Q&A system is initialised or this request
\* initialises it; when this request's initialisation raises, it is answered
\* 500 with the initialisation error; in both cases neither answer_question
\* nor the enhancer is called.
C7_MissingQuestion400UnlessInitFails ==
    \A t \in Threads :
        (pc[t] = "done" /\ route[t] = "query" /\ LacksQuestion(data[t])) =>
            /\ NoRetrievalNoEnhancer(t)
            /\ IF raised[t] = "init failed"
               THEN /\ response[t].status = 500
                    /\ response[t].body["error"] = "init failed"
                    /\ Count(calls[t], "IntelligentQASystem") = 1
               ELSE /\ response[t] =
                        [status |-> 400, body |-> [error |-> "Missing question parameter"]]
                    /\ raised[t] = ""
                    /\ ~IsNone(qa_system)

\* a request with no body, which itself initialised the Q&A system, got 400
C7_Witness ==
    \E t \in Threads :
        /\ pc[t] = "done"
        /\ route[t] = "query"
        /\ IsNone(data[t])
        /\ calls[t] = <<"IntelligentQASystem">>
        /\ response[t].status = 400

\* C8 as stated: no process-wide state is written while requests are handled.
C8_NoGlobalWrittenByRequests == [][UNCHANGED globals]_vars

\* C8 amended: the enhancer flags (and the model object) never change while
\* requests are handled; the one global assigned during request handling is
\* qa_system, by a handler inside init_qa_system that found it None, to the
\* object that handler built - possibly by several concurrent handlers - and
\* it is never reset to None.
C8_OnlyQaSystemWrittenByRequests ==
    [][/\ GEMINI_READY' = GEMINI_READY
       /\ GEMINI_AVAILABLE' = GEMINI_AVAILABLE
       /\ model' = model
       /\ qa_system' # qa_system =>
            /\ ~IsNone(qa_system')
            /\ \E t \in Threads :
                 /\ pc[t] = "construct"
                 /\ pc'[t] = "serve"
                 /\ qa_system' = [built_by |-> t]]_vars

\* two concurrent first requests both built a Q&A system and both assigned it
C8_Witness ==
    \E t, u \in Threads :
        /\ t # u
        /\ pc[t] = "serve"
        /\ pc[u] = "serve"
        /\ calls[t] = <<"IntelligentQASystem">>
        /\ calls[u] = <<"IntelligentQASystem">>
        /\ qa_system = [built_by |-> u]

\* C9: every /query request the handler has started to serve eventually gets
\* a response, also when the outbound enhancer call never returns.
C9_EveryQueryIsAnswered ==
    \A t \in {1} : (pc[t] = "init" /\ route[t] = "query") ~> (pc[t] = "done")

\* C10: per /query request model.generate_content is called at most once:
\* once when the enhancement path is taken with a ready enhancer, never on
\* the direct path; a failed call is not retried and is followed directly by
\* the composer's fallback return; the call comes only after the retriever
\* has returned its result.
C10_EnhancerCalledAtMostOnce ==
    \A t \in Threads :
        LET n == Count(calls[t], "generate_content")
        IN  /\ n <= 1
            /\ n = 1 =>
                 /\ ~IsNone(result[t])
                 /\ \E i, j \in 1..Len(calls[t]) :
                      /\ i < j
                      /\ calls[t][i] = "answer_question"
                      /\ calls[t][j] = "generate_content"
            /\ pc[t] = "calling" => n = 1
            /\ Answered(t) =>
                 n = IF GEMINI_AVAILABLE /\ WantsGemini(t) /\ GEMINI_READY THEN 1 ELSE 0
            /\ enhancer[t] = "raised" =>
                 /\ n = 1
                 /\ pc[t] = "done"
                 /\ "fallback" \in DOMAIN enhanced_result[t]

\* the single call failed and the request was answered from the fallback
C10_Witness ==
    \E t \in Threads :
        /\ Answered(t)
        /\ enhancer[t] = "raised"
        /\ calls[t] = <<"answer_question", "generate_content">>
        /\ enhanced_result[t]["fallback"] = TRUE

====
